---- MODULE Spec2Model ----
(***************************************************************************)
(* Model of CatBoostFeatureSelection (src/CatBoostFeatureSelection.py):    *)
(* a fit/transform feature selector.  fit delegates to the external        *)
(* CatBoostClassifier.select_features and commits the returned column      *)
(* positions; transform projects a DataFrame onto them with X.iloc.        *)
(***************************************************************************)
EXTENDS Integers, Sequences, FiniteSets, TLC

\* ---------------------------------------------------------------- bounds
MaxCols == 4
MaxRows == 2
MaxTarget == 2

\* ------------------------------------------------------------- data model
ColumnNames == <<"a", "b", "c", "d", "e", "f", "g", "h">>

\* A pandas DataFrame with n named columns and r rows.
DataFrame(n, r) ==
    [kind |-> "DataFrame", columns |-> SubSeq(ColumnNames, 1, n), nrows |-> r]

\* A plain 2D numpy array: it has rows but no named columns.
NdArray(r) ==
    [kind |-> "ndarray", columns |-> <<>>, nrows |-> r]

\* The inputs tried: tables of every width with MaxRows rows, full-width
\* tables of every height, and a plain array.
Tables ==
    {DataFrame(n, MaxRows) : n \in 0..MaxCols}
        \cup {DataFrame(MaxCols, r) : r \in 1..MaxRows}
        \cup {NdArray(MaxRows)}

Labels == {"None", "y"}

EvalSets == {"None", "eval"}

NoTable == [kind |-> "none", columns |-> <<>>, nrows |-> 0]

\* isinstance(X, pd.DataFrame)
IsDataFrame(X) == X.kind = "DataFrame"

NCols(X) == Len(X.columns)

\* Injective sequences over S of length at most n.
InjSeqs(S, n) ==
    {s \in UNION {[1..k -> S] : k \in 0..n} :
        \A i, j \in DOMAIN s : s[i] = s[j] => i = j}

\* ------------------------------------------------------- external ranker
\* Arguments of cb.select_features(X, y, features_for_select=X.columns,
\*     num_features_to_select=..., eval_set=..., logging_level='Silent').
SelectFeaturesArgs(slf, X, y) ==
    [X |-> X, y |-> y,
     features_for_select |-> X.columns,
     num_features_to_select |-> slf.num_features_to_select,
     eval_set |-> slf.eval_set,
     logging_level |-> "Silent"]

RankerErrors == {"CatBoostError"}

RankerRaises(e) == [raised |-> TRUE, error |-> e, selected_features |-> <<>>]

RankerReturns(s) == [raised |-> FALSE, error |-> "none", selected_features |-> s]

\* What the external select_features call may do: it may raise (always
\* possible; certain when more features are requested than there are
\* candidates), or return a summary whose 'selected_features' is an ordered
\* list of distinct 0-based candidate positions, at most
\* num_features_to_select of them.
RankerOutcomes(args) ==
    {RankerRaises(e) : e \in RankerErrors}
        \cup IF args.num_features_to_select > Len(args.features_for_select)
                 \/ args.num_features_to_select < 1
             THEN {}
             ELSE {RankerReturns(s) :
                      s \in InjSeqs(0..(Len(args.features_for_select) - 1),
                                    args.num_features_to_select)}

\* ---------------------------------------------------------- the selector
SelfId == 1

\* Mutant of New: the selection starts with a position in it.
NewSeeded(num, ev) ==
    [id |-> SelfId,
     num_features_to_select |-> num,
     selected_features_indices |-> <<0>>,
     eval_set |-> ev]

\* __init__(num_features_to_select, eval_set)
New(num, ev) ==
    [id |-> SelfId,
     num_features_to_select |-> num,
     selected_features_indices |-> <<>>,
     eval_set |-> ev]

NoObject ==
    [id |-> 0, num_features_to_select |-> 0,
     selected_features_indices |-> <<>>, eval_set |-> "None"]

\* Mutant of Iloc: the selected columns come out in reverse order.
IlocReversed(X, idx) ==
    LET n == NCols(X)
        m == Len(idx)
    IN  IF \A k \in 1..m : idx[k] >= -n /\ idx[k] < n
        THEN [raised |-> FALSE, error |-> "none",
              value |-> [kind |-> "DataFrame",
                         columns |-> [k \in 1..m |->
                             X.columns[(IF idx[m + 1 - k] < 0 THEN idx[m + 1 - k] + n
                                        ELSE idx[m + 1 - k]) + 1]],
                         nrows |-> X.nrows]]
        ELSE [raised |-> TRUE, error |-> "IndexError", value |-> NoTable]

\* Mutant of Iloc: positions outside the table are dropped, not reported.
IlocClipping(X, idx) ==
    LET n == NCols(X)
        kept == SelectSeq(idx, LAMBDA i : i >= -n /\ i < n)
    IN  [raised |-> FALSE, error |-> "none",
         value |-> [kind |-> "DataFrame",
                    columns |-> [k \in 1..Len(kept) |->
                        X.columns[(IF kept[k] < 0 THEN kept[k] + n ELSE kept[k]) + 1]],
                    nrows |-> X.nrows]]

\* X.iloc[:, idx] with a list indexer: every position must lie in
\* -n .. n-1 (negative positions count from the end), otherwise pandas
\* raises IndexError; rows are kept as they are.
Iloc(X, idx) ==
    LET n == NCols(X)
        inBounds == \A k \in 1..Len(idx) : idx[k] >= -n /\ idx[k] < n
        pos(i) == IF i < 0 THEN i + n ELSE i
    IN  IF inBounds
        THEN [raised |-> FALSE, error |-> "none",
              value |-> [kind |-> "DataFrame",
                         columns |-> [k \in 1..Len(idx) |-> X.columns[pos(idx[k]) + 1]],
                         nrows |-> X.nrows]]
        ELSE [raised |-> TRUE, error |-> "IndexError", value |-> NoTable]

\* The record of one fit or transform call, as its caller sees it.
NoCall ==
    [outcome |-> "none", error |-> "none", X |-> NoTable, y |-> "None",
     self |-> NoObject, XAfter |-> NoTable, yAfter |-> "None",
     result |-> NoTable, ret |-> NoObject,
     rankerCalls |-> 0]

\* Mutant of Transform: the selection is used up by the call.
TransformConsuming(slf, X, y) ==
    LET entered == [NoCall EXCEPT !.X = X, !.y = y,
                        !.self = [slf EXCEPT !.selected_features_indices = <<>>],
                        !.XAfter = X, !.yAfter = y]
    IN  IF ~IsDataFrame(X)
        THEN [entered EXCEPT !.outcome = "raised", !.error = "ValueError"]
        ELSE LET x_transformed == Iloc(X, slf.selected_features_indices)
             IN  IF x_transformed.raised
                 THEN [entered EXCEPT !.outcome = "raised",
                                      !.error = x_transformed.error]
                 ELSE [entered EXCEPT !.outcome = "returned",
                                      !.result = x_transformed.value]

\* transform(self, X, y=None)
Transform(slf, X, y) ==
    LET entered == [NoCall EXCEPT !.X = X, !.y = y, !.self = slf,
                                  !.XAfter = X, !.yAfter = y]
    IN  IF ~IsDataFrame(X)
        THEN [entered EXCEPT !.outcome = "raised", !.error = "ValueError"]
        ELSE LET x_transformed == Iloc(X, slf.selected_features_indices)
             IN  IF x_transformed.raised
                 THEN [entered EXCEPT !.outcome = "raised",
                                      !.error = x_transformed.error]
                 ELSE [entered EXCEPT !.outcome = "returned",
                                      !.result = x_transformed.value]

\* Mutant of Fit: the ranker's positions are appended to the old selection.
FitMerging(slf, X, y, rk) ==
    LET entered == [NoCall EXCEPT !.X = X, !.y = y, !.self = slf,
                                  !.XAfter = X, !.yAfter = y]
    IN  IF ~IsDataFrame(X)
        THEN [entered EXCEPT !.outcome = "raised", !.error = "ValueError"]
        ELSE LET called == [entered EXCEPT !.rankerCalls = 1]
             IN  IF rk.raised
                 THEN [called EXCEPT !.outcome = "raised", !.error = rk.error]
                 ELSE LET committed ==
                              [slf EXCEPT !.selected_features_indices =
                                              @ \o rk.selected_features]
                      IN  [called EXCEPT !.outcome = "returned",
                                         !.self = committed, !.ret = committed]

\* Mutant of Fit: the ranker's positions are committed without the first one
\* being replaced when a selection already exists.
FitKeepingHead(slf, X, y, rk) ==
    LET entered == [NoCall EXCEPT !.X = X, !.y = y, !.self = slf,
                                  !.XAfter = X, !.yAfter = y]
    IN  IF ~IsDataFrame(X)
        THEN [entered EXCEPT !.outcome = "raised", !.error = "ValueError"]
        ELSE LET called == [entered EXCEPT !.rankerCalls = 1]
             IN  IF rk.raised
                 THEN [called EXCEPT !.outcome = "raised", !.error = rk.error]
                 ELSE LET old == slf.selected_features_indices
                          new == rk.selected_features
                          committed ==
                              [slf EXCEPT !.selected_features_indices =
                                  IF old # <<>> /\ new # <<>>
                                  THEN <<Head(old)>> \o Tail(new) ELSE new]
                      IN  [called EXCEPT !.outcome = "returned",
                                         !.self = committed, !.ret = committed]

\* Mutant of Fit: the ranker is called before the type of X is checked.
FitRanksFirst(slf, X, y, rk) ==
    LET entered == [NoCall EXCEPT !.X = X, !.y = y, !.self = slf,
                                  !.XAfter = X, !.yAfter = y,
                                  !.rankerCalls = 1]
    IN  IF rk.raised
        THEN [entered EXCEPT !.outcome = "raised", !.error = rk.error]
        ELSE IF ~IsDataFrame(X)
        THEN [entered EXCEPT !.outcome = "raised", !.error = "ValueError"]
        ELSE LET committed ==
                     [slf EXCEPT !.selected_features_indices = rk.selected_features]
             IN  [entered EXCEPT !.outcome = "returned",
                                 !.self = committed, !.ret = committed]

\* Mutant of Fit: a ranker failure is caught and the leading columns are
\* committed instead.
FitWithFallback(slf, X, y, rk) ==
    LET entered == [NoCall EXCEPT !.X = X, !.y = y, !.self = slf,
                                  !.XAfter = X, !.yAfter = y]
    IN  IF ~IsDataFrame(X)
        THEN [entered EXCEPT !.outcome = "raised", !.error = "ValueError"]
        ELSE LET called == [entered EXCEPT !.rankerCalls = 1]
                 k == IF slf.num_features_to_select < NCols(X)
                      THEN slf.num_features_to_select ELSE NCols(X)
                 committed ==
                     [slf EXCEPT !.selected_features_indices =
                         IF rk.raised THEN [i \in 1..k |-> i - 1]
                         ELSE rk.selected_features]
             IN  [called EXCEPT !.outcome = "returned",
                                !.self = committed, !.ret = committed]

\* Mutant of Fit: the selection is committed on a copy, which is returned.
FitReturningCopy(slf, X, y, rk) ==
    LET entered == [NoCall EXCEPT !.X = X, !.y = y, !.self = slf,
                                  !.XAfter = X, !.yAfter = y]
    IN  IF ~IsDataFrame(X)
        THEN [entered EXCEPT !.outcome = "raised", !.error = "ValueError"]
        ELSE LET called == [entered EXCEPT !.rankerCalls = 1]
             IN  IF rk.raised
                 THEN [called EXCEPT !.outcome = "raised", !.error = rk.error]
                 ELSE LET copy ==
                              [slf EXCEPT !.id = SelfId + 1,
                                          !.selected_features_indices =
                                              rk.selected_features]
                      IN  [called EXCEPT !.outcome = "returned", !.ret = copy]

\* Mutant of Fit: the old selection is cleared before the ranker is called.
FitClearingFirst(slf, X, y, rk) ==
    LET entered == [NoCall EXCEPT !.X = X, !.y = y, !.self = slf,
                                  !.XAfter = X, !.yAfter = y]
    IN  IF ~IsDataFrame(X)
        THEN [entered EXCEPT !.outcome = "raised", !.error = "ValueError"]
        ELSE LET cleared == [slf EXCEPT !.selected_features_indices = <<>>]
                 called == [entered EXCEPT !.rankerCalls = 1, !.self = cleared]
             IN  IF rk.raised
                 THEN [called EXCEPT !.outcome = "raised", !.error = rk.error]
                 ELSE LET committed ==
                              [slf EXCEPT !.selected_features_indices =
                                              rk.selected_features]
                      IN  [called EXCEPT !.outcome = "returned",
                                         !.self = committed, !.ret = committed]

\* fit(self, X, y); rk is what cb.select_features does if it is called.
Fit(slf, X, y, rk) ==
    LET entered == [NoCall EXCEPT !.X = X, !.y = y, !.self = slf,
                                  !.XAfter = X, !.yAfter = y]
    IN  IF ~IsDataFrame(X)
        THEN [entered EXCEPT !.outcome = "raised", !.error = "ValueError"]
        ELSE LET called == [entered EXCEPT !.rankerCalls = 1]
             IN  IF rk.raised
                 THEN [called EXCEPT !.outcome = "raised", !.error = rk.error]
                 ELSE LET committed ==
                              [slf EXCEPT !.selected_features_indices =
                                              rk.selected_features]
                      IN  [called EXCEPT !.outcome = "returned",
                                         !.self = committed, !.ret = committed]

\* ------------------------------------------------------------------ state
VARIABLES
    self,        \* the selector instance (its attributes)
    call,        \* the last caller-level operation: [op, fit, transform,
                 \*   replaced: its fit put a new selection over an old one]
    offered,     \* what the ranker does when called in the last fit (environment)
    fitted,      \* history: some fit has returned
    lastRanked   \* history: ranker output of the most recent fit that returned

vars == <<self, call, offered, fitted, lastRanked>>

Init ==
    /\ \E num \in 1..MaxTarget, ev \in EvalSets : self = New(num, ev)
    /\ call = [op |-> "init", fit |-> NoCall, transform |-> NoCall,
               replaced |-> FALSE]
    /\ offered = RankerRaises("none")
    /\ fitted = FALSE
    /\ lastRanked = <<>>

\* History bookkeeping shared by the actions that run fit.
Remember(f, rk) ==
    /\ offered' = rk
    /\ fitted' = (fitted \/ f.outcome = "returned")
    /\ lastRanked' = IF f.outcome = "returned" THEN rk.selected_features ELSE lastRanked

\* History: this fit returned and found a different, non-empty selection.
Replaced(f, rk) ==
    /\ f.outcome = "returned"
    /\ self.selected_features_indices # <<>>
    /\ self.selected_features_indices # rk.selected_features

\* selector.fit(X, y)
FitCall(X, y) ==
    \E rk \in RankerOutcomes(SelectFeaturesArgs(self, X, y)) :
        LET f == Fit(self, X, y, rk)
        IN  /\ self' = f.self
            /\ call' = [op |-> "fit", fit |-> f, transform |-> NoCall,
                        replaced |-> Replaced(f, rk)]
            /\ Remember(f, rk)

\* selector.transform(X, y)
TransformCall(X, y) ==
    LET t == Transform(self, X, y)
    IN  /\ self' = t.self
        /\ call' = [op |-> "transform", fit |-> NoCall, transform |-> t,
                    replaced |-> FALSE]
        /\ UNCHANGED <<offered, fitted, lastRanked>>

\* selector.fit(X, y).transform(X): transform runs on the object fit returned,
\* and only if fit returned.
ChainCall(X, y) ==
    \E rk \in RankerOutcomes(SelectFeaturesArgs(self, X, y)) :
        LET f == Fit(self, X, y, rk)
            t == IF f.outcome = "returned" THEN Transform(f.ret, X, "None") ELSE NoCall
        IN  /\ self' = IF f.outcome = "returned" /\ f.ret.id = f.self.id
                       THEN t.self ELSE f.self
            /\ call' = [op |-> "chain", fit |-> f, transform |-> t,
                        replaced |-> Replaced(f, rk)]
            /\ Remember(f, rk)

Next ==
    \/ \E X \in Tables : FitCall(X, "y")
    \/ \E X \in Tables, y \in Labels : TransformCall(X, y)
    \/ \E X \in Tables : ChainCall(X, "y")

Spec == Init /\ [][Next]_vars

\* ----------------------------------------------------------- properties
Selected(obj) == obj.selected_features_indices

\* Every position of S is a column position of X.
ValidFor(S, X) == \A k \in 1..Len(S) : S[k] >= 0 /\ S[k] < NCols(X)

\* The names of the columns of X at the positions of S, in the order of S.
ColumnsAt(X, S) == [k \in 1..Len(S) |-> X.columns[S[k] + 1]]

RanTransform == call.transform.outcome # "none"

RanFit == call.fit.outcome # "none"

\* In the step just taken, transform ran on the object in state pre.
TransformRanOn(pre) ==
    \/ call'.op = "transform" /\ pre = self
    \/ call'.op = "chain" /\ call'.fit.outcome = "returned" /\ pre = call'.fit.ret

PreStates == {self, call'.fit.ret}

\* C1: a transform of a DataFrame X by a selector whose selected positions
\* are all valid for X returns a table holding exactly the columns of X at
\* those positions, in the order of the selection, with the row count of X.
C1_TransformProjects ==
    [][\A pre \in PreStates :
          (/\ TransformRanOn(pre)
           /\ IsDataFrame(call'.transform.X)
           /\ ValidFor(Selected(pre), call'.transform.X))
          => /\ call'.transform.outcome = "returned"
             /\ call'.transform.result.kind = "DataFrame"
             /\ call'.transform.result.columns =
                    ColumnsAt(call'.transform.X, Selected(pre))
             /\ call'.transform.result.nrows = call'.transform.X.nrows]_vars

\* C1 witness: with <<2, 0>> selected, a transform of a table with columns
\* <<a, b, c, d>> returned columns <<c, a>> and all its rows.
C1_Witness ==
    /\ call.op = "transform"
    /\ call.transform.outcome = "returned"
    /\ Selected(self) = <<2, 0>>
    /\ call.transform.X.columns = <<"a", "b", "c", "d">>
    /\ call.transform.X.nrows = MaxRows
    /\ call.transform.result.columns = <<"c", "a">>
    /\ call.transform.result.nrows = MaxRows

\* C2: until a fit has returned the selection is empty, and every transform
\* of a DataFrame returns a table with no columns and the rows of its input.
C2_UnfittedIsEmpty ==
    ~fitted =>
        /\ Selected(self) = <<>>
        /\ (RanTransform /\ IsDataFrame(call.transform.X)) =>
               /\ call.transform.outcome = "returned"
               /\ call.transform.result.columns = <<>>
               /\ call.transform.result.nrows = call.transform.X.nrows

\* C2 witness: a transform of a 4-column table before any fit has returned.
C2_Witness ==
    /\ ~fitted
    /\ call.op = "transform"
    /\ NCols(call.transform.X) = 4
    /\ call.transform.X.nrows = MaxRows
    /\ call.transform.outcome = "returned"
    /\ call.transform.result.columns = <<>>
    /\ call.transform.result.nrows = MaxRows

\* C3: the selection is always exactly what the ranker returned in the most
\* recent fit that returned (and empty if none has).
C3_SelectionIsLastRanked ==
    Selected(self) = IF fitted THEN lastRanked ELSE <<>>

\* C3 witness: a fit put <<1>> in the place of a different non-empty
\* selection.
C3_Witness ==
    /\ call.replaced
    /\ call.op = "fit"
    /\ lastRanked = <<1>>
    /\ Selected(self) = <<1>>

\* C4: the selection is never longer than num_features_to_select, and when
\* fit(X, y) has returned it is no longer than the columns of X.
C4_SelectionBounded ==
    /\ Len(Selected(self)) <= self.num_features_to_select
    /\ (RanFit /\ call.fit.outcome = "returned") =>
           Len(Selected(self)) <= NCols(call.fit.X)

\* C4 witness: a fit on a 2-column table with 2 features requested returned
\* and committed 2 positions, after an earlier selection.
C4_Witness ==
    /\ call.op = "fit"
    /\ call.fit.outcome = "returned"
    /\ call.replaced
    /\ self.num_features_to_select = 2
    /\ NCols(call.fit.X) = 2
    /\ Len(Selected(self)) = 2

C6_OutOfRangeRaises ==
    [][\A pre \in PreStates :
          (/\ TransformRanOn(pre)
           /\ IsDataFrame(call'.transform.X)
           /\ ~ValidFor(Selected(pre), call'.transform.X))
          => /\ call'.transform.outcome = "raised"
             /\ call'.transform.error = "IndexError"
             /\ call'.transform.result = NoTable]_vars

\* C6 witness: the selection <<0, 3>> met a 3-column table.
C6_Witness ==
    /\ call.op = "transform"
    /\ Selected(self) = <<0, 3>>
    /\ NCols(call.transform.X) = 3
    /\ call.transform.outcome = "raised"
    /\ call.transform.error = "IndexError"

\* C7: when the ranker raises in a fit of a DataFrame, fit raises that very
\* error, has called the ranker once, returns nothing and commits nothing.
C7_RankerErrorPropagates ==
    [][(/\ call'.fit.outcome # "none"
        /\ IsDataFrame(call'.fit.X)
        /\ offered'.raised)
       => /\ call'.fit.outcome = "raised"
          /\ call'.fit.error = offered'.error
          /\ call'.fit.rankerCalls = 1
          /\ call'.fit.ret = NoObject
          /\ call'.transform = NoCall
          /\ self' = self]_vars

\* C7 witness: 2 features were requested of a 1-column table and the
\* ranker's error came out of fit.
C7_Witness ==
    /\ call.op = "fit"
    /\ self.num_features_to_select = 2
    /\ NCols(call.fit.X) = 1
    /\ call.fit.X.kind = "DataFrame"
    /\ offered.raised
    /\ call.fit.outcome = "raised"
    /\ call.fit.error = "CatBoostError"
    /\ call.fit.rankerCalls = 1

\* C8: transform changes nothing but its return value: the selector's
\* attributes, X and y are as before whether it returns or raises, and a
\* transform repeated on the same X gives the same outcome.
C8_TransformFrame ==
    [][/\ \A pre \in PreStates :
             TransformRanOn(pre) =>
                 /\ call'.transform.self = pre
                 /\ call'.transform.XAfter = call'.transform.X
                 /\ call'.transform.yAfter = call'.transform.y
       /\ call'.op = "transform" => self' = self
       /\ (/\ call.op = "transform"
           /\ call'.op = "transform"
           /\ call'.transform.X = call.transform.X)
          => /\ call'.transform.outcome = call.transform.outcome
             /\ call'.transform.error = call.transform.error
             /\ call'.transform.result = call.transform.result]_vars

\* C8 witness: a transform that raised IndexError left a two-position
\* selection in place.
C8_Witness ==
    /\ call.op = "transform"
    /\ call.transform.y = "y"
    /\ call.transform.outcome = "raised"
    /\ call.transform.error = "IndexError"
    /\ Len(Selected(self)) = 2
    /\ Selected(self) = lastRanked
    /\ self.eval_set = "eval"

\* C9: a fit that returns returns the selector it was called on, and in
\* fit(X, y).transform(X) the transform returns the columns of the selection
\* just committed, as many as the selection is long.
C9_FitReturnsSelf ==
    /\ (RanFit /\ call.fit.outcome = "returned") =>
           /\ call.fit.ret.id = SelfId
           /\ call.fit.ret = call.fit.self
    /\ (call.op = "chain" /\ call.fit.outcome = "returned") =>
           /\ call.transform.outcome = "returned"
           /\ Selected(self) = offered.selected_features
           /\ NCols(call.transform.result) = Len(Selected(self))
           /\ call.transform.result.columns =
                  ColumnsAt(call.fit.X, offered.selected_features)

\* C9 witness: fit(X, y).transform(X) on <<a, b, c, d>> committed <<3, 1>>
\* over an earlier selection and returned columns <<d, b>>.
C9_Witness ==
    /\ call.op = "chain"
    /\ call.fit.outcome = "returned"
    /\ call.replaced
    /\ Selected(self) = <<3, 1>>
    /\ call.transform.result.columns = <<"d", "b">>

\* C10: a fit that raises, on the type check or because the ranker raised,
\* leaves the selector as it was.
C10_FailedFitKeepsSelection ==
    [][(call'.fit.outcome = "raised") => self' = self]_vars

\* C10 witness: the ranker raised in a fit made after <<1, 0>> had been
\* committed, and <<1, 0>> is still the selection.
C10_Witness ==
    /\ call.op = "fit"
    /\ call.fit.outcome = "raised"
    /\ call.fit.error = "CatBoostError"
    /\ fitted
    /\ lastRanked = <<1, 0>>
    /\ Selected(self) = <<1, 0>>

====
